---- MODULE Spec2Model ----
(***************************************************************************)
(* Model of the thesaurus pipeline:                                        *)
(*   generar_lista_id.py        build_concept_map  (clustering)            *)
(*   generar_indice_invertido.py build_inverted_index                      *)
(*   ejemplo_busqueda.py        SynonymExpander.expand_term / expand_query *)
(*                                                                         *)
(* A string is a sequence of code points (65 = "A", 97 = "a", 32 = " ",    *)
(* 9 = TAB, 45 = "-", 49 = "1", 34 = the double quote), so that strip(),   *)
(* lower(), re.sub(), sorted() and the f-strings are computed, not assumed.*)
(* A dict is a sequence of entries in insertion order.                     *)
(***************************************************************************)
EXTENDS Integers, Sequences, FiniteSets, TLC

\* ---------------------------------------------------------------- bounds
MaxCanon == 2      \* entries of siglas_json
MaxExp == 1        \* expansions per siglas_json entry
MaxSin == 2        \* groups of sinonimos
MaxGroupLen == 2   \* terms per sinonimos group
MaxCsv == 1        \* rows of siglas_csv
MaxModify == 1     \* in-place changes callers make to returned results
MaxLines == 3      \* lines of siglas_multiples.txt
MaxExpansions == 2 \* expansions on one line of siglas_multiples.txt

\* ------------------------------------------------------- input vocabulary
\* Raw terms the loaders may hand over (json.load, the YAML and CSV readers).
\* One run draws all its terms from one of these vocabularies.
Sigla ==      \* an abbreviation, its suffixed dict key and a case variant
  { <<65>>,            \* "A"
    <<65, 45, 49>>,    \* "A-1"
    <<97>> }           \* "a"

Blank ==      \* white space only, a space inside, a tab inside
  { <<32>>,            \* " "
    <<97, 32, 66>>,    \* "a B"
    <<66, 9, 65>> }    \* "B<TAB>A"

Suffix ==     \* terms the suffix cleaning turns into something else
  { <<32, 66>>,        \* " B"
    <<45, 49>>,        \* "-1"
    <<66, 32, 45, 49>> } \* "B -1"

Vocabularies == { Sigla, Blank, Suffix }

\* ------------------------------------------------------------ str helpers
\* str.strip() with no argument removes these (the ASCII whitespace).
IsSpace(c) == c \in {9, 10, 11, 12, 13, 32}

IsDigit(c) == c \in 48..57

RECURSIVE lstrip(_)
lstrip(s) ==
  IF s = <<>> THEN s
  ELSE IF IsSpace(Head(s)) THEN lstrip(Tail(s)) ELSE s

RECURSIVE rstrip(_)
rstrip(s) ==
  IF s = <<>> THEN s
  ELSE IF IsSpace(s[Len(s)]) THEN rstrip(SubSeq(s, 1, Len(s) - 1)) ELSE s

strip(s) == rstrip(lstrip(s))

lower(s) == [i \in 1..Len(s) |-> IF s[i] \in 65..90 THEN s[i] + 32 ELSE s[i]]

\* Python's str "<": lexicographic on code points, a proper prefix is smaller.
RECURSIVE StrLess(_, _)
StrLess(a, b) ==
  IF b = <<>> THEN FALSE
  ELSE IF a = <<>> THEN TRUE
  ELSE IF Head(a) = Head(b) THEN StrLess(Tail(a), Tail(b))
  ELSE Head(a) < Head(b)

SortKey(x, ci) == IF ci THEN lower(x) ELSE x

\* sorted(S, key=...) over a set S: Python iterates the set in an arbitrary
\* order and sorts stably, so every arrangement that is non-decreasing in the
\* key is a possible result (ci: key=lambda x: x.lower(); otherwise no key).
RECURSIVE sorted(_, _)
sorted(S, ci) ==
  IF S = {} THEN { <<>> }
  ELSE LET mins == { x \in S : \A y \in S : ~ StrLess(SortKey(y, ci), SortKey(x, ci)) }
       IN  UNION { { <<x>> \o r : r \in sorted(S \ {x}, ci) } : x \in mins }

\* sorted() of a set of strings without a key: the order is total.
sorted_plain(S) == CHOOSE s \in sorted(S, FALSE) : TRUE

Range(s) == { s[i] : i \in 1..Len(s) }

\* ------------------------------------------------- generar_lista_id.py
normalize_term(term) == strip(term)

\* set(normalize_term(t) for t in terms if normalize_term(t))
normalized_set(terms) ==
  { normalize_term(terms[i]) : i \in { j \in 1..Len(terms) : normalize_term(terms[j]) # <<>> } }

RECURSIVE TrailingDigits(_)
TrailingDigits(s) ==
  IF s = <<>> THEN 0
  ELSE IF IsDigit(s[Len(s)]) THEN 1 + TrailingDigits(SubSeq(s, 1, Len(s) - 1)) ELSE 0

\* re.sub(r'-\d+$', '', term); the terms were stripped, so no final newline.
clean_term(term) ==
  LET k == TrailingDigits(term)
      n == Len(term)
  IN  IF k >= 1 /\ n - k >= 1 /\ term[n - k] = 45
      THEN SubSeq(term, 1, n - k - 1)
      ELSE term

\* Mutant of first_match: the scan gives up after the first concept.
first_match_head(cs, normalized) ==
  IF Len(cs) >= 1 /\ normalized \cap cs[1] # {} THEN 1 ELSE 0

\* Mutant of first_match: the scan has no `break`, the last match is kept.
first_match_last(cs, normalized) ==
  LET hits == { i \in 1..Len(cs) : normalized \cap cs[i] # {} }
  IN  IF hits = {} THEN 0 ELSE CHOOSE i \in hits : \A j \in hits : i >= j

\* The scan `for i, existing_concept in enumerate(concepts)` with `break`:
\* the index of the first concept sharing a term, 0 when there is none.
first_match(cs, normalized) ==
  LET hits == { i \in 1..Len(cs) : normalized \cap cs[i] # {} }
  IN  IF hits = {} THEN 0 ELSE CHOOSE i \in hits : \A j \in hits : i <= j

\* One iteration of PASO 2 / PASO 3 for a group whose normalized set is given.
fold_group(cs, normalized) ==
  IF normalized = {} THEN cs
  ELSE LET i == first_match(cs, normalized)
       IN  IF i = 0 THEN Append(cs, normalized)
           ELSE [cs EXCEPT ![i] = cs[i] \cup normalized]

\* Mutant of append_canonical: a canonical group is folded like a mergeable one.
append_canonical_merging(cs, normalized) == fold_group(cs, normalized)

\* One iteration of PASO 1.
append_canonical(cs, normalized) ==
  IF normalized = {} THEN cs ELSE Append(cs, normalized)

RECURSIVE Digits(_)
Digits(n) == IF n < 10 THEN <<48 + n>> ELSE Digits(n \div 10) \o <<48 + (n % 10)>>

RECURSIVE ZeroPad(_, _)
ZeroPad(s, w) == IF Len(s) >= w THEN s ELSE ZeroPad(<<48>> \o s, w)

\* Mutant of concept_id: enumerate() without start=1.
concept_id_from_zero(idx) == <<67>> \o ZeroPad(Digits(idx - 1), 4)

\* f"C{idx:04d}"
concept_id(idx) == <<67>> \o ZeroPad(Digits(idx), 4)

cleaned_terms(term_set) == { clean_term(t) : t \in term_set }

\* The possible values of concept_map after the final loop: entry idx is
\* [id, terms] with terms one of the results of the case-insensitive sort.
RECURSIVE concept_maps(_, _)
concept_maps(cs, n) ==
  IF n = 0 THEN { <<>> }
  ELSE { Append(m, [id |-> concept_id(n), terms |-> l]) :
           m \in concept_maps(cs, n - 1),
           l \in sorted(cleaned_terms(cs[n]), TRUE) }

\* --------------------------------------------- generar_indice_invertido.py
\* The keys of term_to_concepts: every stripped, non-empty member term.
indexed_terms(synonyms) ==
  { strip(t) : t \in { u \in UNION { Range(synonyms[i].terms) : i \in 1..Len(synonyms) } :
                        strip(u) # <<>> } }

\* term_to_concepts[term] after the double loop, the dict being iterated in
\* the given order (a permutation of its positions).
term_to_concepts(synonyms, order, term) ==
  { synonyms[order[k]].id :
      k \in { j \in 1..Len(order) :
                \E t \in Range(synonyms[order[j]].terms) : strip(t) = term } }

\* Mutant of concept_list: list(concept_ids) without sorted(), the ids in the
\* order the concepts were iterated.
concept_list_unsorted(synonyms, order, term) ==
  LET hit == SelectSeq(order, LAMBDA k : \E t \in Range(synonyms[k].terms) : strip(t) = term)
  IN  [k \in 1..Len(hit) |-> synonyms[hit[k]].id]

\* concept_list = sorted(list(concept_ids))
concept_list(synonyms, order, term) ==
  sorted_plain(term_to_concepts(synonyms, order, term))

\* Mutant of index_entry: the flag is computed with >= instead of >.
index_entry_off_by_one(synonyms, order, term) ==
  LET cl == concept_list(synonyms, order, term)
  IN  [term |-> term, concept_ids |-> cl, is_ambiguous |-> Len(cl) >= 1]

index_entry(synonyms, order, term) ==
  LET cl == concept_list(synonyms, order, term)
  IN  [term |-> term, concept_ids |-> cl, is_ambiguous |-> Len(cl) > 1]

\* The returned dict: one entry per term, inserted in sorted(...items()) order.
build_inverted_index(synonyms, order) ==
  LET keys == sorted_plain(indexed_terms(synonyms))
  IN  [k \in 1..Len(keys) |-> index_entry(synonyms, order, keys[k])]

\* The orders in which a dict of n entries may be iterated.
RECURSIVE Perms(_)
Perms(S) ==
  IF S = {} THEN { <<>> }
  ELSE UNION { { <<x>> \o p : p \in Perms(S \ {x}) } : x \in S }

IterOrders(n) == Perms(1..n)

\* --------------------------------------------------- ejemplo_busqueda.py
HasKey(d, k) == \E i \in 1..Len(d) : d[i].term = k

Lookup(d, k) == d[CHOOSE i \in 1..Len(d) : d[i].term = k]

HasConcept(synonyms, cid) == \E i \in 1..Len(synonyms) : synonyms[i].id = cid

Members(synonyms, cid) ==
  Range(synonyms[CHOOSE i \in 1..Len(synonyms) : synonyms[i].id = cid].terms)

\* f'"{t}"'
Quoted(t) == <<34>> \o t \o <<34>>

\* f'"{t}"' if ' ' in t else t
quote_if_space(t) == IF \E i \in 1..Len(t) : t[i] = 32 THEN Quoted(t) ELSE t

RECURSIVE join(_, _)
join(sep, parts) ==
  IF parts = <<>> THEN <<>>
  ELSE IF Len(parts) = 1 THEN parts[1]
  ELSE parts[1] \o sep \o join(sep, Tail(parts))

\* Mutant of sorted_synonyms: sorted with key=lambda x: x.lower().
sorted_synonyms_lower(all_synonyms) == CHOOSE s \in sorted(all_synonyms, TRUE) : TRUE

\* sorted(all_synonyms)
sorted_synonyms(all_synonyms) == sorted_plain(all_synonyms)

\* f"({' OR '.join(quoted_terms)})"
boolean_query(all_synonyms) ==
  LET st == sorted_synonyms(all_synonyms)
      quoted_terms == [i \in 1..Len(st) |-> quote_if_space(st[i])]
  IN  <<40>> \o join(<<32, 79, 82, 32>>, quoted_terms) \o <<41>>

\* Mutant of not_found_result: the query keeps its default, the bare term.
not_found_result_bare(term) ==
  [original |-> term, found |-> FALSE, is_ambiguous |-> FALSE,
   concept_ids |-> <<>>, expanded_terms |-> {term}, query |-> term]

\* The dict returned when the term is not a key of the index.
not_found_result(term) ==
  [original |-> term, found |-> FALSE, is_ambiguous |-> FALSE,
   concept_ids |-> <<>>, expanded_terms |-> {term}, query |-> Quoted(term)]

\* Mutant of all_synonyms_of: one concept id that is no key of the map voids
\* the whole expansion.
all_synonyms_of_strict(synonyms, concept_ids) ==
  IF \A c \in Range(concept_ids) : HasConcept(synonyms, c)
  THEN UNION { Members(synonyms, cid) : cid \in Range(concept_ids) }
  ELSE {}

\* The loop of lines 84-86: ids that are no key of the map are passed over.
all_synonyms_of(synonyms, concept_ids) ==
  UNION { Members(synonyms, cid) :
            cid \in { c \in Range(concept_ids) : HasConcept(synonyms, c) } }

\* Mutant of default_query: the default is the quoted literal.
default_query_quoted(term) == Quoted(term)

\* 'query': term, the value the result is created with.
default_query(term) == term

expand_term(synonyms, index, term) ==
  IF ~ HasKey(index, term) THEN not_found_result(term)
  ELSE LET index_data == Lookup(index, term)
           all_synonyms == all_synonyms_of(synonyms, index_data.concept_ids)
       IN  [original |-> term, found |-> TRUE,
            is_ambiguous |-> index_data.is_ambiguous,
            concept_ids |-> index_data.concept_ids,
            expanded_terms |-> all_synonyms,
            query |-> IF Cardinality(all_synonyms) > 0
                      THEN boolean_query(all_synonyms) ELSE default_query(term)]

expand_query(synonyms, index, query) == expand_term(synonyms, index, strip(query))

\* ------------------------------------------------------------ the program
VARIABLES
  vocab,           \* the raw terms the three sources of this run are made of
  pc,              \* where the pipeline stands
  consumed,        \* build_concept_map: items of the current source iterated
  used_keys,       \* build_concept_map: keys of siglas_json already iterated
  normalized,      \* build_concept_map: the local `normalized` of the last group
  concepts,        \* build_concept_map: the list `concepts`
  canonical,       \* history: normalized set of every non-empty canonical group
  merge_terms,     \* history: normalized terms of every mergeable group
  created,         \* history: mergeable groups that matched no concept
  skipped,         \* history: some group had an empty normalized set
  concept_map,     \* the dict build_concept_map returns (lista_sinonimos.json)
  inverted_index,  \* the dict build_inverted_index returns (indice_invertido.json)
  self_synonyms,        \* SynonymExpander: self.synonyms
  self_inverted_index,  \* SynonymExpander: self.inverted_index
  loaded,          \* history: the two structures as __init__ loaded them
  modified,        \* callers' in-place changes of returned results so far
  result,          \* the dict the last expand_term returned
  parse_pc,        \* parse_siglas_multiples: where it stands
  lines_read,      \* parse_siglas_multiples: lines of the file iterated
  expansion_groups,  \* parse_siglas_multiples: the defaultdict expansion_groups
  converted,       \* parse_siglas_multiples: items of expansion_groups iterated
  concept_counter, \* parse_siglas_multiples: the defaultdict concept_counter
  siglas_dict,     \* parse_siglas_multiples: the dict siglas_dict
  keys_made        \* history: every key the second loop generated, in order

vars == <<vocab, pc, consumed, used_keys, normalized, concepts, canonical,
          merge_terms, created, skipped, concept_map, inverted_index,
          self_synonyms, self_inverted_index, loaded, modified, result,
          parse_pc, lines_read, expansion_groups, converted, concept_counter,
          siglas_dict, keys_made>>

pipeline == <<vocab, pc, consumed, used_keys, normalized, concepts, canonical,
              merge_terms, created, skipped, concept_map, inverted_index,
              self_synonyms, self_inverted_index, loaded, modified, result>>

parser == <<parse_pc, lines_read, expansion_groups, converted, concept_counter,
            siglas_dict, keys_made>>

locals == <<consumed, used_keys, normalized, concepts>>

history == <<canonical, merge_terms, created, skipped>>

files == <<concept_map, inverted_index>>

expander == <<self_synonyms, self_inverted_index, loaded, modified>>

NoResult == [original |-> <<>>, found |-> FALSE, is_ambiguous |-> FALSE,
             concept_ids |-> <<>>, expanded_terms |-> {}, query |-> <<>>]

\* The lists a source may hold for one group: the loops turn every list into
\* a set at once, so each set of at most n raw terms is drawn as one list.
ListsOf(S, n) == { sorted_plain(G) : G \in { H \in SUBSET S : Cardinality(H) <= n } }

\* Terms a caller may ask about: the raw terms, the keys they are indexed
\* under, and a term no source contains ("Z").
QueryTerms == vocab \cup { strip(clean_term(strip(t))) : t \in vocab } \cup { <<90>> }

Init ==
  /\ vocab \in Vocabularies
  /\ pc = "paso1"
  /\ consumed = 0
  /\ used_keys = {}
  /\ normalized = {}
  /\ concepts = <<>>
  /\ canonical = <<>>
  /\ merge_terms = {}
  /\ created = 0
  /\ skipped = FALSE
  /\ concept_map = <<>>
  /\ inverted_index = <<>>
  /\ self_synonyms = <<>>
  /\ self_inverted_index = <<>>
  /\ loaded = <<>>
  /\ modified = 0
  /\ result = NoResult
  /\ parse_pc = "read"
  /\ lines_read = 0
  /\ expansion_groups = <<>>
  /\ converted = 0
  /\ concept_counter = <<>>
  /\ siglas_dict = <<>>
  /\ keys_made = <<>>

\* PASO 1, one entry of siglas_json.items().
Paso1Group ==
  /\ pc = "paso1"
  /\ consumed < MaxCanon
  /\ \E sigla \in vocab \ used_keys, expansiones \in ListsOf(vocab, MaxExp) :
       /\ normalized' = normalized_set(<<sigla>> \o expansiones)
       /\ used_keys' = used_keys \cup {sigla}
  /\ concepts' = append_canonical(concepts, normalized')
  /\ canonical' = IF normalized' = {} THEN canonical ELSE Append(canonical, normalized')
  /\ skipped' = (skipped \/ normalized' = {})
  /\ consumed' = consumed + 1
  /\ UNCHANGED <<vocab, pc, merge_terms, created, files, expander, result, parser>>

\* siglas_json is exhausted.
Paso1End ==
  /\ pc = "paso1"
  /\ pc' = "paso2"
  /\ consumed' = 0
  /\ used_keys' = {}
  /\ UNCHANGED <<vocab, normalized, concepts, history, files, expander, result, parser>>

\* The loop body shared by PASO 2 and PASO 3, and what the group leaves in
\* the history.
Folded ==
  /\ concepts' = fold_group(concepts, normalized')
  /\ merge_terms' = merge_terms \cup normalized'
  /\ created' = IF /\ normalized' # {}
                   /\ \A i \in 1..Len(concepts) : concepts[i] \cap normalized' = {}
                THEN created + 1 ELSE created
  /\ skipped' = (skipped \/ normalized' = {})

\* PASO 2, one synonym_list of sinonimos.
Paso2Group ==
  /\ pc = "paso2"
  /\ consumed < MaxSin
  /\ \E synonym_list \in ListsOf(vocab, MaxGroupLen) :
       normalized' = normalized_set(synonym_list)
  /\ Folded
  /\ consumed' = consumed + 1
  /\ UNCHANGED <<vocab, pc, used_keys, canonical, files, expander, result, parser>>

\* sinonimos is exhausted.
Paso2End ==
  /\ pc = "paso2"
  /\ pc' = "paso3"
  /\ consumed' = 0
  /\ UNCHANGED <<vocab, used_keys, normalized, concepts, history, files, expander, result, parser>>

\* PASO 3, one (sigla, expansion) of siglas_csv.
Paso3Row ==
  /\ pc = "paso3"
  /\ consumed < MaxCsv
  /\ \E sigla \in vocab, expansion \in vocab :
       normalized' = normalized_set(<<sigla, expansion>>)
  /\ Folded
  /\ consumed' = consumed + 1
  /\ UNCHANGED <<vocab, pc, used_keys, canonical, files, expander, result, parser>>

\* siglas_csv is exhausted: the final loop of build_concept_map and its return,
\* with which its locals end.
AssignIds ==
  /\ pc = "paso3"
  /\ concept_map' \in concept_maps(concepts, Len(concepts))
  /\ pc' = "map"
  /\ consumed' = 0
  /\ used_keys' = {}
  /\ normalized' = {}
  /\ concepts' = <<>>
  /\ UNCHANGED <<vocab, history, inverted_index, expander, result, parser>>

\* generar_indice_invertido.py main(): build_inverted_index on the saved map.
BuildIndex ==
  /\ pc = "map"
  /\ \E order \in IterOrders(Len(concept_map)) :
       inverted_index' = build_inverted_index(concept_map, order)
  /\ pc' = "index"
  /\ UNCHANGED <<vocab, locals, history, concept_map, expander, result, parser>>

\* The script is run again on the same lista_sinonimos.json.
RebuildIndex ==
  /\ pc = "index"
  /\ \E order \in IterOrders(Len(concept_map)) :
       inverted_index' = build_inverted_index(concept_map, order)
  /\ pc' = "rebuilt"
  /\ UNCHANGED <<vocab, locals, history, concept_map, expander, result, parser>>

\* What __init__ does with the two parsed files: it keeps them as they are;
\* what is remembered of the sources (the history) plays no part from here on.
Loaded(synonyms, index) ==
  /\ pc' = "serving"
  /\ self_synonyms' = synonyms
  /\ self_inverted_index' = index
  /\ loaded' = <<synonyms, index>>
  /\ canonical' = <<>>
  /\ merge_terms' = {}
  /\ created' = 0
  /\ skipped' = FALSE
  /\ UNCHANGED <<vocab, locals, files, modified, result, parser>>

\* SynonymExpander.__init__ on the two files of the same build.
Load ==
  /\ pc \in {"index", "rebuilt"}
  /\ Loaded(concept_map, inverted_index)

\* A map file without concept i: lista_sinonimos.json as another run of
\* generar_lista_id.py left it, the index file not being rebuilt.
without_concept(synonyms, i) ==
  [k \in 1..(Len(synonyms) - 1) |-> IF k < i THEN synonyms[k] ELSE synonyms[k + 1]]

\* SynonymExpander.__init__ on an index file and a map file that lacks one
\* of the concepts the index was built from.
LoadOutOfSync ==
  /\ pc \in {"index", "rebuilt"}
  /\ \E i \in 1..Len(concept_map) :
       Loaded(without_concept(concept_map, i), inverted_index)

\* expand_term(term), its result handed to the caller.
ExpandTerm ==
  /\ pc = "serving"
  /\ \E term \in QueryTerms :
       result' = expand_term(self_synonyms, self_inverted_index, term)
  /\ UNCHANGED <<vocab, pc, locals, history, files, expander, parser>>

\* expand_query(query), its result handed to the caller.
ExpandQuery ==
  /\ pc = "serving"
  /\ \E query \in QueryTerms :
       result' = expand_query(self_synonyms, self_inverted_index, query)
  /\ UNCHANGED <<vocab, pc, locals, history, files, expander, parser>>

\* The index after the list object that is index[term]['concept_ids'] has
\* become the list ids.
with_concept_ids(index, term, ids) ==
  [k \in 1..Len(index) |->
     IF index[k].term = term THEN [index[k] EXCEPT !.concept_ids = ids] ELSE index[k]]

\* A caller changes result['concept_ids'] in place (list.pop()). For a found
\* term line 80 put the list of the index entry itself into the result, so
\* the one list object both dicts hold loses its last element.
CallerPopsConceptId ==
  /\ pc = "serving"
  /\ modified < MaxModify
  /\ result.found
  /\ result.concept_ids # <<>>
  /\ LET ids == SubSeq(result.concept_ids, 1, Len(result.concept_ids) - 1)
     IN  /\ result' = [result EXCEPT !.concept_ids = ids]
         /\ self_inverted_index' = with_concept_ids(self_inverted_index, result.original, ids)
  /\ modified' = modified + 1
  /\ UNCHANGED <<vocab, pc, locals, history, files, self_synonyms, loaded, parser>>

\* A caller changes result['expanded_terms'] in place (set.clear()): the set
\* is one the call made (line 71 or line 83), nothing else holds it.
CallerClearsTerms ==
  /\ pc = "serving"
  /\ modified < MaxModify
  /\ result.expanded_terms # {}
  /\ result' = [result EXCEPT !.expanded_terms = {}]
  /\ modified' = modified + 1
  /\ UNCHANGED <<vocab, pc, locals, history, files, self_synonyms,
                 self_inverted_index, loaded, parser>>

Next ==
  \/ Paso1Group
  \/ Paso1End
  \/ Paso2Group
  \/ Paso2End
  \/ Paso3Row
  \/ AssignIds
  \/ BuildIndex
  \/ RebuildIndex
  \/ Load
  \/ LoadOutOfSync
  \/ ExpandTerm
  \/ ExpandQuery
  \/ CallerPopsConceptId
  \/ CallerClearsTerms

Spec == Init /\ [][Next]_vars

\* ------------------------------------------------ crear_siglas_medicas.py
\* The text left of the colon on a line, and the texts between the commas
\* right of it: "A", "A-2", " B" and "x", " y".
SiglaFields == { <<65>>, <<65, 45, 50>>, <<32, 66>> }

ExpansionFields == { <<120>>, <<32, 121>> }

\* The comma-separated fields of one line, each text at most once.
ExpansionLists ==
  UNION { Perms(G) : G \in { H \in SUBSET ExpansionFields :
                               Cardinality(H) >= 1 /\ Cardinality(H) <= MaxExpansions } }

RECURSIVE insert_sorted(_, _)
insert_sorted(x, l) ==
  IF l = <<>> THEN <<x>>
  ELSE IF StrLess(x, Head(l)) THEN <<x>> \o l
  ELSE <<Head(l)>> \o insert_sorted(x, Tail(l))

\* sorted() of a list of strings.
RECURSIVE sorted_list(_)
sorted_list(l) ==
  IF l = <<>> THEN <<>>
  ELSE insert_sorted(l[Len(l)], sorted_list(SubSeq(l, 1, Len(l) - 1)))

\* tuple(sorted(exp.strip() for exp in ...))
expansion_key(fields) == sorted_list([i \in 1..Len(fields) |-> strip(fields[i])])

HasGroup(groups, key) == \E i \in 1..Len(groups) : groups[i].key = key

\* expansion_groups[expansion_key].add(sigla) on a defaultdict(set)
add_sigla(groups, key, sigla) ==
  IF HasGroup(groups, key)
  THEN [i \in 1..Len(groups) |->
          IF groups[i].key = key
          THEN [groups[i] EXCEPT !.siglas = groups[i].siglas \cup {sigla}]
          ELSE groups[i]]
  ELSE Append(groups, [key |-> key, siglas |-> {sigla}])

HasEntry(d, key) == \E i \in 1..Len(d) : d[i].key = key

\* d[key] = value: a key the dict has keeps its place and gets the value.
dict_set(d, key, value) ==
  IF HasEntry(d, key)
  THEN [i \in 1..Len(d) |-> IF d[i].key = key THEN [key |-> key, value |-> value] ELSE d[i]]
  ELSE Append(d, [key |-> key, value |-> value])

\* defaultdict(int)[key]
counter_get(counter, key) ==
  IF HasEntry(counter, key)
  THEN counter[CHOOSE i \in 1..Len(counter) : counter[i].key = key].value
  ELSE 0

\* f"{primary_sigla}-{concept_counter[primary_sigla]}"
suffixed_key(primary_sigla, n) == primary_sigla \o <<45>> \o Digits(n)

\* One line "sigla: expansion, expansion" of the file.
ReadLine ==
  /\ parse_pc = "read"
  /\ lines_read < MaxLines
  /\ \E sigla_field \in SiglaFields, fields \in ExpansionLists :
       expansion_groups' =
         add_sigla(expansion_groups, expansion_key(fields), strip(sigla_field))
  /\ lines_read' = lines_read + 1
  /\ UNCHANGED <<pipeline, parse_pc, converted, concept_counter, siglas_dict, keys_made>>

\* An empty line, or a line without a colon.
SkipLine ==
  /\ parse_pc = "read"
  /\ lines_read < MaxLines
  /\ lines_read' = lines_read + 1
  /\ UNCHANGED <<pipeline, parse_pc, expansion_groups, converted, concept_counter,
                 siglas_dict, keys_made>>

\* The file is exhausted.
EndOfFile ==
  /\ parse_pc = "read"
  /\ parse_pc' = "convert"
  /\ UNCHANGED <<pipeline, lines_read, expansion_groups, converted, concept_counter,
                 siglas_dict, keys_made>>

\* The second loop, one item of expansion_groups.items().
ConvertGroup ==
  /\ parse_pc = "convert"
  /\ converted < Len(expansion_groups)
  /\ LET group == expansion_groups[converted + 1]
         siglas_list == sorted_plain(group.siglas)
         terminos == siglas_list \o group.key
         primary_sigla == siglas_list[1]
         used == HasEntry(siglas_dict, primary_sigla)
         n == IF used THEN counter_get(concept_counter, primary_sigla) + 1 ELSE 1
         key == IF used THEN suffixed_key(primary_sigla, n) ELSE primary_sigla
     IN  /\ concept_counter' = dict_set(concept_counter, primary_sigla, n)
         /\ siglas_dict' = dict_set(siglas_dict, key, terminos)
         /\ keys_made' = Append(keys_made, key)
  /\ converted' = converted + 1
  /\ UNCHANGED <<pipeline, parse_pc, lines_read, expansion_groups>>

\* return siglas_dict
Return ==
  /\ parse_pc = "convert"
  /\ converted = Len(expansion_groups)
  /\ parse_pc' = "done"
  /\ UNCHANGED <<pipeline, lines_read, expansion_groups, converted, concept_counter,
                 siglas_dict, keys_made>>

NextSiglas ==
  \/ ReadLine
  \/ SkipLine
  \/ EndOfFile
  \/ ConvertGroup
  \/ Return

SpecSiglas == Init /\ [][NextSiglas]_vars

\* -------------------------------------------------------------- the claims
Built == pc \in {"map", "index", "rebuilt", "serving"}

Indexed == pc \in {"index", "rebuilt", "serving"}

\* The terms of concept i of the returned map, as a set.
TermsOf(i) == Range(concept_map[i].terms)

\* C1 (as stated): in every concept map build_concept_map returns, any two
\* distinct concept identifiers have term lists with empty intersection.
C1_Disjointness ==
  Built => \A i, j \in 1..Len(concept_map) : i # j => TermsOf(i) \cap TermsOf(j) = {}

\* C1 (amended): disjointness holds at creation only. When a mergeable group
\* is appended as a new concept, its normalized term set shares no term with
\* any concept active at that moment.
C1_DisjointAtCreation ==
  [][ (pc \in {"paso2", "paso3"} /\ Len(concepts') = Len(concepts) + 1)
        => \A i \in 1..Len(concepts) : concepts[i] \cap concepts'[Len(concepts')] = {} ]_vars

\* A mergeable group has just been appended as a new concept beside others.
C1_Witness ==
  /\ pc \in {"paso2", "paso3"}
  /\ consumed >= 1
  /\ Len(concepts) >= 2
  /\ normalized # {}
  /\ concepts[Len(concepts)] = normalized
  /\ Len(concepts) = Len(canonical) + created

\* C2 (as stated): index round trip. (1) every term t of every concept c of
\* the map has an index entry whose concept_ids contains c; (2) every c in the
\* concept_ids of an index entry t is a key of the map with t among its terms.
C2_RoundTrip ==
  Indexed =>
    /\ \A i \in 1..Len(concept_map) : \A t \in TermsOf(i) :
         /\ HasKey(inverted_index, t)
         /\ concept_map[i].id \in Range(Lookup(inverted_index, t).concept_ids)
    /\ \A k \in 1..Len(inverted_index) : \A c \in Range(inverted_index[k].concept_ids) :
         /\ HasConcept(concept_map, c)
         /\ inverted_index[k].term \in Members(concept_map, c)

\* The canonical groups that hold t itself / a term indexed under t.
GroupsHolding(t) == { i \in 1..Len(canonical) : t \in canonical[i] }

IndexKey(x) == strip(clean_term(x))

GroupsIndexedUnder(t) ==
  { i \in 1..Len(canonical) : \E x \in canonical[i] : IndexKey(x) = t }

\* Every non-empty canonical group is a concept of its own: during PASO 1 the
\* list of concepts is the list of the groups, and later it only grows.
OwnConcepts ==
  /\ pc = "paso1" => concepts = canonical
  /\ pc \in {"paso2", "paso3"} =>
       /\ Len(concepts) >= Len(canonical)
       /\ \A i \in 1..Len(canonical) : canonical[i] \subseteq concepts[i]
  /\ pc \in {"map", "index", "rebuilt"} => Len(concept_map) >= Len(canonical)

\* C3 (as stated): canonical groups are never merged with each other; when k
\* canonical groups and no mergeable group contain the term t, the index entry
\* for t lists exactly k concept ids and is ambiguous exactly when k > 1.
C3_CanonicalNonMerge ==
  /\ OwnConcepts
  /\ pc \in {"index", "rebuilt"} =>
       \A e \in Range(inverted_index) :
         (GroupsHolding(e.term) # {} /\ e.term \notin merge_terms) =>
           /\ Len(e.concept_ids) = Cardinality(GroupsHolding(e.term))
           /\ e.is_ambiguous = (Cardinality(GroupsHolding(e.term)) > 1)

\* C3 (amended): the same, a group counting as containing t when one of its
\* terms is t once its trailing -<digits> suffix is removed and it is trimmed
\* (the key "AM-1" of the second meaning of AM counts as AM).
C3_CanonicalNonMergeCleaned ==
  /\ OwnConcepts
  /\ pc \in {"index", "rebuilt"} =>
       \A e \in Range(inverted_index) :
         (\A x \in merge_terms : IndexKey(x) # e.term) =>
           /\ Len(e.concept_ids) = Cardinality(GroupsIndexedUnder(e.term))
           /\ e.is_ambiguous = (Cardinality(GroupsIndexedUnder(e.term)) > 1)

\* Two canonical groups and no mergeable one hold the same term: its entry
\* lists two concepts and is ambiguous.
C3_Witness ==
  /\ pc = "index"
  /\ merge_terms = {}
  /\ Len(canonical) = 2
  /\ \E e \in Range(inverted_index) :
       /\ GroupsHolding(e.term) = {1, 2}
       /\ Len(e.concept_ids) = 2
       /\ e.is_ambiguous

Min(S) == CHOOSE i \in S : \A j \in S : i <= j

\* C4: a mergeable group with non-empty normalized set S is united with the
\* first concept (in creation order) that shares a term with it, every other
\* concept staying as it is and none being appended; when no concept shares a
\* term with S, S is appended as the new last concept.
C4_FirstMatchWins ==
  [][ (pc \in {"paso2", "paso3"} /\ consumed' = consumed + 1 /\ normalized' # {})
        => LET S == normalized'
               hits == { i \in 1..Len(concepts) : concepts[i] \cap S # {} }
           IN  IF hits # {}
               THEN /\ Len(concepts') = Len(concepts)
                    /\ \A i \in 1..Len(concepts) :
                         concepts'[i] = IF i = Min(hits) THEN concepts[i] \cup S
                                        ELSE concepts[i]
               ELSE concepts' = Append(concepts, S) ]_vars

\* The group shares a term with both canonical concepts: the first one took
\* it, the second one is as it was.
C4_Witness ==
  /\ pc = "paso2"
  /\ consumed = 1
  /\ Len(canonical) = 2
  /\ Len(concepts) = 2
  /\ canonical[1] \cap canonical[2] = {}
  /\ normalized \cap canonical[1] # {}
  /\ normalized \cap canonical[2] # {}
  /\ ~ (normalized \subseteq canonical[1])
  /\ concepts[1] = canonical[1] \cup normalized
  /\ concepts[2] = canonical[2]

RECURSIVE Decimal(_)
Decimal(ds) ==
  IF ds = <<>> THEN 0 ELSE 10 * Decimal(SubSeq(ds, 1, Len(ds) - 1)) + (ds[Len(ds)] - 48)

\* C5: the keys of the returned map are C0001..C000n in creation order, the
\* concepts of the canonical groups first; n is the number of non-empty
\* canonical groups plus the number of non-empty mergeable groups that shared
\* no term with an active concept; empty groups create nothing.
C5_IdentifierAssignment ==
  pc \in {"map", "index", "rebuilt"} =>
    /\ Len(concept_map) = Len(canonical) + created
    /\ \A i \in 1..Len(concept_map) :
         LET id == concept_map[i].id
         IN  /\ Len(id) = 5
             /\ id[1] = 67
             /\ \A d \in 2..5 : IsDigit(id[d])
             /\ Decimal(Tail(id)) = i
    /\ \A i \in 1..Len(canonical) :
         { clean_term(x) : x \in canonical[i] } \subseteq TermsOf(i)

\* Canonical and mergeable groups made concepts, a group was empty, and the
\* map has been returned.
C5_Witness ==
  /\ pc = "map"
  /\ Len(canonical) >= 1
  /\ created >= 1
  /\ skipped
  /\ Len(concept_map) >= 3

\* C6: for a term that is no key of the index, expand_term returns found =
\* false, is_ambiguous = false, no concept ids, expanded_terms = {term} and
\* as query the term between double quotes.
C6_NotFoundLiteral ==
  (pc = "serving" /\ modified = 0 /\ result # NoResult
     /\ ~ HasKey(self_inverted_index, result.original)) =>
    /\ result.found = FALSE
    /\ result.is_ambiguous = FALSE
    /\ result.concept_ids = <<>>
    /\ result.expanded_terms = {result.original}
    /\ Len(result.query) = Len(result.original) + 2
    /\ result.query[1] = 34
    /\ result.query[Len(result.query)] = 34
    /\ SubSeq(result.query, 2, Len(result.query) - 1) = result.original

\* "Z" was asked of a non-empty index that has no such key.
C6_Witness ==
  /\ pc = "serving"
  /\ self_inverted_index # <<>>
  /\ result.original = <<90>>
  /\ ~ result.found
  /\ result.query = <<34, 90, 34>>

\* The expander holds the two structures of one build.
InSync == self_synonyms = concept_map /\ self_inverted_index = inverted_index

\* C7 (as stated): for a term that is a key of the index, expand_term returns
\* found = true, the entry's concept_ids, is_ambiguous exactly when there is
\* more than one of them, as expanded_terms the union of the member lists of
\* all those concepts, and the term itself is one of the expanded terms.
C7_FoundExpansion ==
  (pc = "serving" /\ InSync /\ modified = 0 /\ result # NoResult
     /\ HasKey(inverted_index, result.original)) =>
    /\ result.found = TRUE
    /\ result.concept_ids = Lookup(inverted_index, result.original).concept_ids
    /\ result.is_ambiguous = (Len(result.concept_ids) > 1)
    /\ result.expanded_terms =
         UNION { TermsOf(i) : i \in { j \in 1..Len(concept_map) :
                                        concept_map[j].id \in Range(result.concept_ids) } }
    /\ result.original \in result.expanded_terms

\* st lists the set S in case-sensitive lexicographic order.
ListsInOrder(st, S) ==
  /\ Len(st) = Cardinality(S)
  /\ Range(st) = S
  /\ \A i \in 1..(Len(st) - 1) : StrLess(st[i], st[i + 1])

RECURSIVE OrJoined(_)
OrJoined(parts) ==
  IF Len(parts) = 1 THEN parts[1]
  ELSE OrJoined(SubSeq(parts, 1, Len(parts) - 1)) \o <<32, 79, 82, 32>> \o parts[Len(parts)]

\* "(" t1 OR t2 ... ")" over the list st, the terms satisfying Q in quotes.
Disjunction(st, Q(_)) ==
  <<40>> \o OrJoined([i \in 1..Len(st) |-> IF Q(st[i]) THEN <<34>> \o st[i] \o <<34>>
                                           ELSE st[i]]) \o <<41>>

HasWhitespace(t) == \E i \in 1..Len(t) : IsSpace(t[i])

HasSpaceChar(t) == \E i \in 1..Len(t) : t[i] = 32

Expanded == pc = "serving" /\ modified = 0 /\ result.found /\ result.expanded_terms # {}

\* C8 (as stated): the query of a found term is the expanded terms in
\* case-sensitive lexicographic order, each in double quotes iff it contains
\* white space, joined by " OR " between parentheses: a function of the
\* expanded-term set alone.
C8_QueryString ==
  Expanded =>
    \E st \in Perms(result.expanded_terms) :
      /\ ListsInOrder(st, result.expanded_terms)
      /\ result.query = Disjunction(st, HasWhitespace)

\* C8 (amended): the same, a term being put in double quotes iff it contains
\* a space character (U+0020); a tab inside a term does not get it quoted.
C8_QueryStringSpaces ==
  Expanded =>
    \E st \in Perms(result.expanded_terms) :
      /\ ListsInOrder(st, result.expanded_terms)
      /\ result.query = Disjunction(st, HasSpaceChar)

\* A term with a space and a term with a tab were expanded together, the
\* upper-case one first.
C8_Witness ==
  /\ Expanded
  /\ result.expanded_terms = { <<97, 32, 66>>, <<66, 9, 65>> }
  /\ result.query =
       <<40, 66, 9, 65, 32, 79, 82, 32, 34, 97, 32, 66, 34, 41>>

\* C9: in every index build_inverted_index returns, is_ambiguous of a term is
\* true exactly when it has more than one concept id, and its concept ids are
\* at least one, without repetition and in ascending order.
C9_AmbiguityConsistency ==
  Indexed =>
    \A e \in Range(inverted_index) :
      /\ e.is_ambiguous = (Len(e.concept_ids) > 1)
      /\ Len(e.concept_ids) >= 1
      /\ \A i \in 1..(Len(e.concept_ids) - 1) :
           StrLess(e.concept_ids[i], e.concept_ids[i + 1])

\* The index holds an ambiguous term and an unambiguous one.
C9_Witness ==
  /\ pc = "index"
  /\ \E e \in Range(inverted_index) : e.is_ambiguous /\ Len(e.concept_ids) = 2
  /\ \E e \in Range(inverted_index) : ~ e.is_ambiguous /\ Len(e.concept_ids) = 1

\* C10: build_inverted_index run again on the same concept map, iterated in
\* whatever order, returns the same index (keys in case-sensitive order, same
\* concept_ids, same flags), and no run changes the concept map.
C10_IdempotentRebuild ==
  [][ /\ (pc = "index" /\ pc' = "rebuilt") =>
           /\ inverted_index' = inverted_index
           /\ \A k \in 1..(Len(inverted_index') - 1) :
                StrLess(inverted_index'[k].term, inverted_index'[k + 1].term)
      /\ (pc \in {"map", "index"} /\ pc' \in {"index", "rebuilt"}) =>
           concept_map' = concept_map ]_vars

\* The index of a map of several concepts, one term in two of them, has been
\* built a second time.
C10_Witness ==
  /\ pc = "rebuilt"
  /\ Len(concept_map) >= 2
  /\ Len(inverted_index) >= 2
  /\ \E e \in Range(inverted_index) : Len(e.concept_ids) >= 2

\* C11 (as stated): in every concept map build_concept_map returns, every
\* member term is a non-empty string without leading or trailing white space,
\* carries no trailing -<digits> suffix, and occurs once in its concept's list.
C11_WellFormedTerms ==
  Built =>
    \A i \in 1..Len(concept_map) :
      LET terms == concept_map[i].terms
      IN  /\ \A k \in 1..Len(terms) :
               /\ terms[k] # <<>>
               /\ strip(terms[k]) = terms[k]
               /\ clean_term(terms[k]) = terms[k]
          /\ \A j, k \in 1..Len(terms) : j # k => terms[j] # terms[k]

Dangling(e) == \E c \in Range(e.concept_ids) : ~ HasConcept(self_synonyms, c)

\* The last call returned its result for a key of the loaded index, and no
\* caller has touched a result.
ReturnedFound ==
  /\ pc = "serving"
  /\ modified = 0
  /\ result # NoResult
  /\ HasKey(self_inverted_index, result.original)

\* C13 (as stated): an index entry that references a concept id absent from
\* the loaded map is detected, at load time or at expansion, and is a fatal
\* error: no expansion of such a term returns a result.
C13_FatalOnAbsentConcept ==
  ReturnedFound => ~ Dangling(Lookup(self_inverted_index, result.original))

\* C13 (amended): nothing detects it. The expander loads, and expand_term of
\* such a term returns a result as for any found term: found = true, the
\* entry's concept_ids (the absent id among them) and flag, and as
\* expanded_terms the union of the member lists of those concepts that are
\* keys of the map, the absent ones being passed over.
C13_AbsentConceptSkipped ==
  (ReturnedFound /\ Dangling(Lookup(self_inverted_index, result.original))) =>
    LET e == Lookup(self_inverted_index, result.original)
    IN  /\ result.found = TRUE
        /\ result.concept_ids = e.concept_ids
        /\ result.is_ambiguous = e.is_ambiguous
        /\ result.expanded_terms =
             UNION { Range(self_synonyms[i].terms) :
                       i \in { j \in 1..Len(self_synonyms) :
                                 self_synonyms[j].id \in Range(e.concept_ids) } }

\* An ambiguous term was expanded, one of its two concepts being absent from
\* the loaded map: the terms of the other one came back.
C13_Witness ==
  /\ ReturnedFound
  /\ Len(result.concept_ids) = 2
  /\ Dangling(Lookup(self_inverted_index, result.original))
  /\ \E c \in Range(result.concept_ids) : HasConcept(self_synonyms, c)
  /\ result.expanded_terms # {}

\* C14 (as stated): for a term found in the index whose concepts' member
\* terms have an empty union, the query expand_term returns is the term
\* between double quotes, as in the not-found case.
C14_EmptyUnionQuoted ==
  (ReturnedFound /\ result.expanded_terms = {}) => result.query = Quoted(result.original)

\* C14 (amended): in that case the query is the term itself, as given and
\* without quotes, while found is true and expanded_terms is empty.
C14_EmptyUnionBare ==
  (ReturnedFound /\ result.expanded_terms = {}) =>
    /\ result.found = TRUE
    /\ result.query = result.original

\* A term of the index was expanded whose only concept is absent from the
\* loaded map.
C14_Witness ==
  /\ ReturnedFound
  /\ result.found
  /\ Len(result.concept_ids) = 1
  /\ result.expanded_terms = {}
  /\ result.query = result.original

\* x comes before y in case-insensitive order, ties broken by the natural
\* (case-sensitive) order.
BeforeIgnoringCase(x, y) ==
  \/ StrLess(lower(x), lower(y))
  \/ lower(x) = lower(y) /\ StrLess(x, y)

\* C15 (as stated): each member list build_concept_map returns is sorted
\* case-insensitively, members equal but for case in natural string order, so
\* that the list is a function of the concept's term set alone.
C15_MemberOrdering ==
  Built =>
    \A i \in 1..Len(concept_map) :
      \A k \in 1..(Len(concept_map[i].terms) - 1) :
        BeforeIgnoringCase(concept_map[i].terms[k], concept_map[i].terms[k + 1])

\* C16 (as stated): parse_siglas_multiples returns one entry per distinct
\* expansion set of its input, every group's terms being the value of an
\* entry, and the keys it generates (the primary sigla, or the primary sigla
\* with a -<n> suffix) are pairwise distinct, so that no entry overwrites
\* another, also when a sigla such as "A-2" stands in the input beside
\* several meanings of "A".
C16_MeaningsKeptSeparate ==
  parse_pc = "done" =>
    /\ Len(siglas_dict) = Cardinality({ Range(expansion_groups[i].key) :
                                          i \in 1..Len(expansion_groups) })
    /\ \A i, j \in 1..Len(keys_made) : i # j => keys_made[i] # keys_made[j]
    /\ \A i \in 1..Len(expansion_groups) :
         \E k \in 1..Len(siglas_dict) :
           siglas_dict[k].value =
             sorted_plain(expansion_groups[i].siglas) \o expansion_groups[i].key

====
